---- MODULE Spec2Model ----
(***************************************************************************)
(* Agent_Coder front-end: the three asynchronous click handlers loadRepo,  *)
(* askQuestion and generateSummary.  The repository holds two copies of    *)
(* the script: src/static/script.js and src/unnamed/part_000.  A page      *)
(* loads one of them; the variable `script` says which.                    *)
(*                                                                         *)
(* Each handler runs synchronously up to an `await`; the pieces between    *)
(* two awaits are the atomic steps of the model.                           *)
(*                                                                         *)
(* A JavaScript string is a sequence of UTF-16 code units.  The model      *)
(* writes it as a sequence of characters, one per code unit.  A character  *)
(* is a TLA+ string: the character itself for printable ASCII other than   *)
(* the double quote, the backslash and the grave accent, and "U+" with     *)
(* the four upper-case hexadecimal digits of the code unit for everything  *)
(* else ("U+0009" is TAB, "U+00A0" NBSP, "U+D800" a high surrogate).       *)
(* Chars("abc") is <<"a", "b", "c">>.  The horizontal ellipsis of the two  *)
(* placeholders is the character "U+2026".                                 *)
(***************************************************************************)
EXTENDS Integers, Sequences, FiniteSets

VARIABLES
  script,     \* which copy of the script the page loaded
  dom,        \* element id -> sequence of the texts of its child nodes
  alerts,     \* the messages passed to window.alert, in order
  net,        \* suspended invocations: one record per pending await
  nextId,     \* number of the next click (invocation)
  newest,     \* history: per display operation, the validated invocation started last
  last,       \* history: per operation, the invocation that finished last and its exchange
  chatOwner,  \* history: for each child of the chat box, the invocation that appended it
  asked,      \* history: invocation number -> trimmed question, for validated askQuestion calls
  askOverlap  \* history: some askQuestion started while another one was still pending

vars == <<script, dom, alerts, net, nextId, newest, last, chatOwner, asked, askOverlap>>

-----------------------------------------------------------------------------
(* Bounds *)

MaxCalls == 2

-----------------------------------------------------------------------------
(* Strings *)

\* the characters of a text written in printable ASCII
Chars(s) == [i \in 1..Len(s) |-> SubSeq(s, i, i)]

\* the code units 0x20..0x7E in order; the places of the double quote (0x22),
\* the backslash (0x5C) and the grave accent (0x60) hold a space
AsciiTable ==
  " ! #$%&'()*+,-./0123456789:;<=>?@ABCDEFGHIJKLMNOPQRSTUVWXYZ[ ]^_ abcdefghijklmnopqrstuvwxyz{|}~"

HexDigits == Chars("0123456789ABCDEF")

HexDigit(n) == HexDigits[n + 1]

HexDigitValue ==
  [d \in {HexDigits[i] : i \in DOMAIN HexDigits} |->
     (CHOOSE i \in DOMAIN HexDigits : HexDigits[i] = d) - 1]

\* the number written with the four hexadecimal digits of "U+XXXX"
HexValue(c) ==
  HexDigitValue[SubSeq(c, 3, 3)] * 4096 + HexDigitValue[SubSeq(c, 4, 4)] * 256
    + HexDigitValue[SubSeq(c, 5, 5)] * 16 + HexDigitValue[SubSeq(c, 6, 6)]

\* the code unit of each character written as itself
AsciiCode ==
  [c \in {SubSeq(AsciiTable, i, i) : i \in 1..Len(AsciiTable)} |->
     31 + (CHOOSE i \in 1..Len(AsciiTable) :
             /\ SubSeq(AsciiTable, i, i) = c
             /\ \A k \in 1..(i - 1) : SubSeq(AsciiTable, k, k) # c)]

\* the UTF-16 code unit of a character
CodeUnit(c) == IF Len(c) = 1 THEN AsciiCode[c] ELSE HexValue(c)

\* the code points String.prototype.trim strips: WhiteSpace (TAB, VT, FF,
\* SP, NBSP, ZWNBSP and the category Zs) and LineTerminator (LF, CR, LS, PS)
Whitespace ==
  {9, 10, 11, 12, 13, 32, 160, 5760, 8232, 8233, 8239, 8287, 12288, 65279}
    \cup (8192..8202)

RECURSIVE TrimStart(_)
TrimStart(s) ==
  IF Len(s) > 0 /\ CodeUnit(s[1]) \in Whitespace
  THEN TrimStart(SubSeq(s, 2, Len(s)))
  ELSE s

RECURSIVE TrimEnd(_)
TrimEnd(s) ==
  IF Len(s) > 0 /\ CodeUnit(s[Len(s)]) \in Whitespace
  THEN TrimEnd(SubSeq(s, 1, Len(s) - 1))
  ELSE s

\* the value is used as typed: the validation sees the untrimmed input
TrimOmitted(s) == s

\* String.prototype.trim
Trim(s) == TrimEnd(TrimStart(s))

IsHighSurrogate(u) == 55296 <= u /\ u <= 56319
IsLowSurrogate(u)  == 56320 <= u /\ u <= 57343

\* the conversion to a USVString, as applied to the arguments of
\* FormData.append: a surrogate that is not half of a pair becomes U+FFFD
RECURSIVE ToUSVString(_)
ToUSVString(s) ==
  IF Len(s) = 0 THEN <<>>
  ELSE
    LET u == CodeUnit(s[1]) IN
      IF IsHighSurrogate(u) /\ Len(s) >= 2 /\ IsLowSurrogate(CodeUnit(s[2]))
      THEN <<s[1], s[2]>> \o ToUSVString(SubSeq(s, 3, Len(s)))
      ELSE IF IsHighSurrogate(u) \/ IsLowSurrogate(u)
      THEN <<"U+FFFD">> \o ToUSVString(Tail(s))
      ELSE <<s[1]>> \o ToUSVString(Tail(s))

\* a call returns a value or throws an error with a message
Return(v)  == [threw |-> FALSE, v |-> v, message |-> <<>>]
Throw(msg) == [threw |-> TRUE, v |-> <<>>, message |-> msg]

\* the message of the URIError thrown by encodeURIComponent
URIErrorMessage == Chars("URI malformed")

\* the characters encodeURIComponent leaves as they are: the letters, the
\* decimal digits and the marks - _ . ! ~ * ' ( )
URIUnescaped ==
  Chars("ABCDEFGHIJKLMNOPQRSTUVWXYZabcdefghijklmnopqrstuvwxyz0123456789-_.!~*'()")

IsUnescaped(c) == \E i \in DOMAIN URIUnescaped : URIUnescaped[i] = c

\* the code point of a surrogate pair
PairCodePoint(hi, lo) == (hi - 55296) * 1024 + (lo - 56320) + 65536

\* the octets of the UTF-8 encoding of a code point
UTF8(cp) ==
  IF cp < 128 THEN <<cp>>
  ELSE IF cp < 2048 THEN <<192 + (cp \div 64), 128 + (cp % 64)>>
  ELSE IF cp < 65536
    THEN <<224 + (cp \div 4096), 128 + ((cp \div 64) % 64), 128 + (cp % 64)>>
  ELSE <<240 + (cp \div 262144), 128 + ((cp \div 4096) % 64),
         128 + ((cp \div 64) % 64), 128 + (cp % 64)>>

RECURSIVE PercentOctets(_)
PercentOctets(bs) ==
  IF bs = <<>> THEN <<>>
  ELSE <<"%", HexDigit(bs[1] \div 16), HexDigit(bs[1] % 16)>> \o PercentOctets(Tail(bs))

\* the percent-escape of one code point: "%XX" for each octet of its UTF-8
\* encoding
EscapeChar(cp) == PercentOctets(UTF8(cp))

\* encodeURIComponent: the unescaped characters stay, every other code point
\* is escaped, and a surrogate that is not half of a pair throws a URIError
RECURSIVE encodeURIComponent(_)
encodeURIComponent(s) ==
  IF Len(s) = 0 THEN Return(<<>>)
  ELSE
    LET u == CodeUnit(s[1]) IN
      IF IsUnescaped(s[1])
      THEN LET rest == encodeURIComponent(Tail(s)) IN
             IF rest.threw THEN rest ELSE Return(<<s[1]>> \o rest.v)
      ELSE IF IsLowSurrogate(u) THEN Throw(URIErrorMessage)
      ELSE IF IsHighSurrogate(u)
        THEN IF Len(s) < 2 \/ ~IsLowSurrogate(CodeUnit(s[2]))
             THEN Throw(URIErrorMessage)
             ELSE LET rest == encodeURIComponent(SubSeq(s, 3, Len(s))) IN
                    IF rest.threw THEN rest
                    ELSE Return(EscapeChar(PairCodePoint(u, CodeUnit(s[2]))) \o rest.v)
      ELSE LET rest == encodeURIComponent(Tail(s)) IN
             IF rest.threw THEN rest ELSE Return(EscapeChar(u) \o rest.v)

-----------------------------------------------------------------------------
(* JavaScript values: a string or undefined *)

Undefined == [t |-> "undefined", v |-> <<>>]
Str(s)    == [t |-> "string", v |-> s]

\* ToBoolean
Truthy(x) == x.t = "string" /\ x.v # <<>>

UndefinedText == Chars("undefined")

\* ToString, as applied by the + operator
JSToString(x) ==
  CASE x.t = "string"    -> x.v
    [] x.t = "undefined" -> UndefinedText

\* a || b
Or(a, b) == IF Truthy(a) THEN a ELSE b

\* the conversion to the nullable DOMString of Node.textContent:
\* undefined becomes null, which the setter treats as ""
ToNullableDOMString(x) == IF x.t = "string" THEN x.v ELSE <<>>

\* the message of the TypeError thrown when property `p` of null is read
TypeErrorMessage ==
  [p \in {"error", "message", "answer", "summary"} |->
     Chars("Cannot read properties of null (reading '") \o Chars(p) \o Chars("')")]

\* the message of the SyntaxError with which Response.json() rejects
SyntaxErrorMessage ==
  Chars("Unexpected token '<', ") \o <<"U+0022">> \o Chars("<!DOCTYPE ")
    \o <<"U+0022">> \o Chars("... is not valid JSON")

\* the message of the TypeError with which fetch() rejects
NetworkErrorMessage == Chars("Failed to fetch")

-----------------------------------------------------------------------------
(* The DOM *)

filesDiv   == "files"
chatBox    == "chat-box"
summaryBox == "summary-box"

ElementIds == {"files", "chat-box", "summary-box"}

RECURSIVE Concat(_)
Concat(ss) == IF ss = <<>> THEN <<>> ELSE Head(ss) \o Concat(Tail(ss))

\* the textContent getter: the concatenation of the texts of the children
textContent(el) == Concat(dom[el])

\* a text node is added and the old children stay
SetTextContentKeepsChildren(children, s) == IF s = <<>> THEN children ELSE Append(children, s)

\* the textContent setter: all children are replaced by one text node,
\* or by none when the string is empty
SetTextContent(children, s) == IF s = <<>> THEN <<>> ELSE <<s>>

\* the new paragraph takes the place of the children
appendChildReplaces(children, s) == <<s>>

\* createElement("p"), p.textContent = s, appendChild(p)
appendChild(children, s) == Append(children, s)

-----------------------------------------------------------------------------
(* What the backend can answer *)

\* how the promise of fetch() settles: rejected with a TypeError, or
\* resolved with a Response whose ok flag is set or not
FetchOutcomes ==
  { [rejected |-> TRUE,  ok |-> FALSE, message |-> NetworkErrorMessage],
    [rejected |-> FALSE, ok |-> TRUE,  message |-> <<>>],
    [rejected |-> FALSE, ok |-> FALSE, message |-> <<>>] }

\* the value of a parsed body: null, or an object of which the handlers
\* read the properties error, message, answer and summary (a property
\* the object does not have reads as undefined)
Data(t, error, message, answer, summary) ==
  [t |-> t, error |-> error, message |-> message, answer |-> answer,
   summary |-> summary]

NullData == Data("null", Undefined, Undefined, Undefined, Undefined)

Bodies ==
  { NullData,
    Data("object", Undefined, Undefined, Undefined, Undefined),
    Data("object", Str(<<>>), Undefined, Undefined, Undefined),
    Data("object", Str(Chars("rate limited")), Undefined, Undefined, Undefined),
    Data("object", Undefined, Str(Chars("42 files")), Str(Chars("It parses code")),
         Str(Chars("A parser in C"))) }

\* how the promise of resp.json() settles: rejected with a SyntaxError
\* (the body is no JSON), or resolved with the parsed value
JsonOutcomes ==
  { [rejected |-> TRUE, message |-> SyntaxErrorMessage, data |-> NullData] }
  \cup { [rejected |-> FALSE, message |-> <<>>, data |-> d] : d \in Bodies }

\* the exchange of one invocation, as the backend and the transport made it:
\* no exchange (validation refused the input), a transport failure, or a
\* response with its status and its body (read by the handler or not)
\* (`json`: "-" no body, "no" the body is no JSON, "yes" it is; `error`: the
\* error property of the parsed body)
NoExchange == [kind |-> "invalid", ok |-> FALSE, json |-> "-", error |-> Undefined]

\* no exchange either: the request could not be built
NotSent == [kind |-> "encode", ok |-> FALSE, json |-> "-", error |-> Undefined]

Exchange(f, j) ==
  IF f.rejected
  THEN [kind |-> "transport", ok |-> FALSE, json |-> "-", error |-> Undefined]
  ELSE [kind |-> "response", ok |-> f.ok,
        json |-> IF j.rejected THEN "no" ELSE "yes", error |-> j.data.error]

Resolved(ok) == [rejected |-> FALSE, ok |-> ok, message |-> <<>>]

\* what the operator can have typed
RepoUrls ==
  { <<>>,
    <<"U+00A0", " ", "U+000A">>,
    <<"U+0009">> \o Chars("o/r?a=b&c") \o <<"U+000D", "U+000A">>,
    <<"U+D800">> }

Questions ==
  { <<>>,
    <<"U+0009", "U+FEFF">>,
    Chars("q1"),
    <<"U+000A">> \o Chars("50% of a=") \o <<"U+00E9", "U+D83D", "U+DE00", "U+2003">>,
    Chars("q") \o <<"U+DC00">> }

Roles ==
  { <<>>, <<"U+0009">>, <<" ">> \o Chars("dev") \o <<"U+3000">> }

-----------------------------------------------------------------------------
(* The handlers, piece by piece.  A piece returns either the next await    *)
(* of the invocation or the text it writes before it returns.              *)

\* the literals of the handlers
ErrorPrefix           == Chars("Error: ")
BotPrefix             == Chars("Bot: ")
YouPrefix             == Chars("You: ")
RepoUrlParam          == Chars("repo_url=")
QuestionParam         == Chars("question=")
FailedToLoadRepository == Chars("Failed to load repository")
FailedToLoadRepo      == Chars("Failed to load repo")
FailedToGetAnswer     == Chars("Failed to get answer")
FailedText            == Chars("Failed")
UnexpectedResponseMessage ==
  Chars("Error: Unexpected response. Please check the backend.")

AwaitJson  == [pc |-> "json", text |-> <<>>]
Write(s)   == [pc |-> "done", text |-> s]

\* ---- loadRepo, src/static/script.js
loadRepoFetched_static(f) ==
  IF f.rejected THEN Write(ErrorPrefix \o f.message)
  ELSE AwaitJson

loadRepoParsed_static(ok, j) ==
  IF j.rejected THEN Write(<<>>)
  ELSE IF ~ok THEN
    IF j.data.t = "null" THEN Write(ErrorPrefix \o TypeErrorMessage["error"])
    ELSE Write(ErrorPrefix \o JSToString(Or(j.data.error, Str(FailedToLoadRepository))))
  ELSE
    IF j.data.t = "null" THEN Write(ErrorPrefix \o TypeErrorMessage["message"])
    ELSE Write(ToNullableDOMString(j.data.message))

\* ---- loadRepo, src/unnamed/part_000
loadRepoFetched_part000(f) ==
  IF f.rejected THEN Write(ErrorPrefix \o f.message)
  ELSE IF ~f.ok THEN Write(ErrorPrefix \o FailedToLoadRepo)
  ELSE AwaitJson

loadRepoParsed_part000(ok, j) ==
  IF j.rejected THEN Write(ErrorPrefix \o j.message)
  ELSE IF j.data.t = "null" THEN Write(ErrorPrefix \o TypeErrorMessage["message"])
  ELSE Write(ToNullableDOMString(j.data.message))

\* ---- askQuestion, the same text in both copies
askQuestionFetched(f) ==
  IF f.rejected THEN Write(ErrorPrefix \o f.message)
  ELSE IF ~f.ok THEN Write(ErrorPrefix \o FailedToGetAnswer)
  ELSE AwaitJson

askQuestionParsed(ok, j) ==
  IF j.rejected THEN Write(ErrorPrefix \o j.message)
  ELSE IF j.data.t = "null" THEN Write(ErrorPrefix \o TypeErrorMessage["answer"])
  ELSE Write(BotPrefix \o JSToString(j.data.answer))

\* ---- generateSummary, src/static/script.js
generateSummaryFetched_static(f) ==
  IF f.rejected THEN Write(ErrorPrefix \o f.message)
  ELSE AwaitJson

generateSummaryParsed_static(ok, j) ==
  IF j.rejected THEN Write(UnexpectedResponseMessage)
  ELSE IF ~ok THEN
    IF j.data.t = "null" THEN Write(ErrorPrefix \o TypeErrorMessage["error"])
    ELSE Write(ErrorPrefix \o JSToString(Or(j.data.error, Str(FailedText))))
  ELSE
    IF j.data.t = "null" THEN Write(ErrorPrefix \o TypeErrorMessage["summary"])
    ELSE Write(ToNullableDOMString(j.data.summary))

\* ---- generateSummary, src/unnamed/part_000
generateSummaryFetched_part000(f) ==
  IF f.rejected THEN Write(ErrorPrefix \o f.message)
  ELSE AwaitJson

generateSummaryParsed_part000(ok, j) ==
  IF j.rejected THEN Write(ErrorPrefix \o j.message)
  ELSE IF ~ok THEN
    IF j.data.t = "null" THEN Write(ErrorPrefix \o TypeErrorMessage["error"])
    ELSE Write(ErrorPrefix \o JSToString(Or(j.data.error, Str(FailedText))))
  ELSE
    IF j.data.t = "null" THEN Write(ErrorPrefix \o TypeErrorMessage["summary"])
    ELSE Write(ToNullableDOMString(j.data.summary))

-----------------------------------------------------------------------------
(* State *)

Scripts    == {"static", "part_000"}
Ops        == {"loadRepo", "askQuestion", "generateSummary"}
DisplayOps == {"loadRepo", "generateSummary"}

\* every operation writes to the summary box
TargetSummaryBox(op) == summaryBox

\* the display element of an operation
Target(op) ==
  CASE op = "loadRepo"        -> filesDiv
    [] op = "askQuestion"     -> chatBox
    [] op = "generateSummary" -> summaryBox

LoadingText    == Chars("Loading repository") \o <<"U+2026">>
GeneratingText == Chars("Generating summary") \o <<"U+2026">>
GuidanceText   == Chars("Please enter both repo URL and role.")

\* an invocation suspended at an await: `pc` is the promise it waits for,
\* `ok` is resp.ok once fetch() has resolved, the rest is the request
Pending(id, op, pc, ok, url, body, form) ==
  [id |-> id, op |-> op, pc |-> pc, ok |-> ok, url |-> url, body |-> body,
   form |-> form]

PendingOf(op) == {r \in net : r.op = op}

\* the page as loaded: one of the two scripts, the three display elements
\* without children, nothing in flight
Init ==
  /\ script \in Scripts
  /\ dom = [e \in ElementIds |-> <<>>]
  /\ alerts = <<>>
  /\ net = {}
  /\ nextId = 1
  /\ newest = [o \in DisplayOps |-> [id |-> 0, settled |-> FALSE, text |-> <<>>]]
  /\ last = [o \in Ops |-> [id |-> 0, text |-> <<>>, ex |-> NoExchange]]
  /\ chatOwner = <<>>
  /\ asked = {}
  /\ askOverlap = FALSE

\* the invocation r of a display operation writes s and returns
Finish(r, s, ex) ==
  /\ dom' = [dom EXCEPT ![Target(r.op)] = SetTextContent(@, s)]
  /\ net' = net \ {r}
  /\ last' = [last EXCEPT ![r.op] = [id |-> r.id, text |-> s, ex |-> ex]]
  /\ newest' = IF newest[r.op].id = r.id
               THEN [newest EXCEPT ![r.op] = [id |-> r.id, settled |-> TRUE, text |-> s]]
               ELSE newest

\* the invocation r goes on to await resp.json()
Suspend(r, ok) ==
  net' = (net \ {r}) \cup {[r EXCEPT !.pc = "json", !.ok = ok]}

-----------------------------------------------------------------------------
(* loadRepo *)

loadRepo(input) ==
  /\ nextId <= MaxCalls
  /\ nextId' = nextId + 1
  /\ LET repoUrl == Trim(input)
         encoded == encodeURIComponent(repoUrl)
         caught  == ErrorPrefix \o encoded.message IN
       IF repoUrl = <<>>
       THEN /\ alerts' = Append(alerts, "Please enter a GitHub repo URL")
            /\ UNCHANGED <<dom, net, newest, last>>
       ELSE IF encoded.threw
       THEN \* the body of the request cannot be built: the catch clause runs
            \* before fetch() is called
            /\ dom' = [dom EXCEPT ![filesDiv] =
                         SetTextContent(SetTextContent(@, LoadingText), caught)]
            /\ newest' = [newest EXCEPT !["loadRepo"] =
                            [id |-> nextId, settled |-> TRUE, text |-> caught]]
            /\ last' = [last EXCEPT !["loadRepo"] =
                          [id |-> nextId, text |-> caught, ex |-> NotSent]]
            /\ UNCHANGED <<net, alerts>>
       ELSE /\ dom' = [dom EXCEPT ![filesDiv] = SetTextContent(@, LoadingText)]
            /\ net' = net \cup
                 {Pending(nextId, "loadRepo", "fetch", FALSE, "/load_repo",
                          RepoUrlParam \o encoded.v, <<>>)}
            /\ newest' = [newest EXCEPT !["loadRepo"] =
                            [id |-> nextId, settled |-> FALSE, text |-> <<>>]]
            /\ UNCHANGED <<alerts, last>>
  /\ UNCHANGED <<script, chatOwner, asked, askOverlap>>

loadRepoFetched ==
  \E r \in PendingOf("loadRepo"), f \in FetchOutcomes, j \in JsonOutcomes :
    /\ r.pc = "fetch"
    /\ LET step == IF script = "static" THEN loadRepoFetched_static(f)
                   ELSE loadRepoFetched_part000(f) IN
         IF step.pc = "json"
         THEN Suspend(r, f.ok) /\ UNCHANGED <<dom, last, newest>>
         ELSE Finish(r, step.text, Exchange(f, j))
    /\ UNCHANGED <<script, alerts, nextId, chatOwner, asked, askOverlap>>

loadRepoParsed ==
  \E r \in PendingOf("loadRepo"), j \in JsonOutcomes :
    /\ r.pc = "json"
    /\ LET step == IF script = "static" THEN loadRepoParsed_static(r.ok, j)
                   ELSE loadRepoParsed_part000(r.ok, j) IN
         Finish(r, step.text, Exchange(Resolved(r.ok), j))
    /\ UNCHANGED <<script, alerts, nextId, chatOwner, asked, askOverlap>>

-----------------------------------------------------------------------------
(* askQuestion *)

\* the invocation r returns without a reply: an exception swallowed
ReplyDropped(r, s, ex) ==
  /\ net' = net \ {r}
  /\ last' = [last EXCEPT ![r.op] = [id |-> r.id, text |-> s, ex |-> ex]]
  /\ UNCHANGED <<dom, chatOwner>>

\* the invocation r appends its reply and returns
Reply(r, s, ex) ==
  /\ dom' = [dom EXCEPT ![chatBox] = appendChild(@, s)]
  /\ chatOwner' = Append(chatOwner, r.id)
  /\ net' = net \ {r}
  /\ last' = [last EXCEPT ![r.op] = [id |-> r.id, text |-> s, ex |-> ex]]

\* the "You: " entry is not written when the click is handled
askQuestionWithoutEcho(input) ==
  /\ nextId <= MaxCalls
  /\ nextId' = nextId + 1
  /\ LET q       == Trim(input)
         encoded == encodeURIComponent(q)
         caught  == ErrorPrefix \o encoded.message IN
       IF q = <<>>
       THEN /\ alerts' = Append(alerts, "Please enter a question")
            /\ UNCHANGED <<dom, net, chatOwner, asked, askOverlap, last>>
       ELSE /\ asked' = asked \cup {[id |-> nextId, q |-> q]}
            /\ askOverlap' = (askOverlap \/ PendingOf("askQuestion") # {})
            /\ UNCHANGED alerts
            /\ IF encoded.threw
               THEN /\ dom' = [dom EXCEPT ![chatBox] = appendChild(@, caught)]
                    /\ chatOwner' = Append(chatOwner, nextId)
                    /\ last' = [last EXCEPT !["askQuestion"] =
                                  [id |-> nextId, text |-> caught, ex |-> NotSent]]
                    /\ UNCHANGED net
               ELSE /\ net' = net \cup
                         {Pending(nextId, "askQuestion", "fetch", FALSE, "/ask",
                                  QuestionParam \o encoded.v, <<>>)}
                    /\ UNCHANGED <<dom, chatOwner, last>>
  /\ UNCHANGED <<script, newest>>

askQuestion(input) ==
  /\ nextId <= MaxCalls
  /\ nextId' = nextId + 1
  /\ LET q       == Trim(input)
         encoded == encodeURIComponent(q)
         caught  == ErrorPrefix \o encoded.message IN
       IF q = <<>>
       THEN /\ alerts' = Append(alerts, "Please enter a question")
            /\ UNCHANGED <<dom, net, chatOwner, asked, askOverlap, last>>
       ELSE /\ asked' = asked \cup {[id |-> nextId, q |-> q]}
            /\ askOverlap' = (askOverlap \/ PendingOf("askQuestion") # {})
            /\ UNCHANGED alerts
            /\ IF encoded.threw
               THEN \* the body of the request cannot be built: the catch
                    \* clause runs before fetch() is called
                    /\ dom' = [dom EXCEPT ![chatBox] =
                                 appendChild(appendChild(@, YouPrefix \o q), caught)]
                    /\ chatOwner' = chatOwner \o <<nextId, nextId>>
                    /\ last' = [last EXCEPT !["askQuestion"] =
                                  [id |-> nextId, text |-> caught, ex |-> NotSent]]
                    /\ UNCHANGED net
               ELSE /\ dom' = [dom EXCEPT ![chatBox] =
                                 appendChild(@, YouPrefix \o q)]
                    /\ chatOwner' = Append(chatOwner, nextId)
                    /\ net' = net \cup
                         {Pending(nextId, "askQuestion", "fetch", FALSE, "/ask",
                                  QuestionParam \o encoded.v, <<>>)}
                    /\ UNCHANGED last
  /\ UNCHANGED <<script, newest>>

\* the pending await of invocation `id` settles
askQuestionSettled(id) ==
  \E r \in PendingOf("askQuestion") :
    /\ r.id = id
    /\ \/ \E f \in FetchOutcomes, j \in JsonOutcomes :
            /\ r.pc = "fetch"
            /\ LET step == askQuestionFetched(f) IN
                 IF step.pc = "json"
                 THEN Suspend(r, f.ok) /\ UNCHANGED <<dom, chatOwner, last>>
                 ELSE Reply(r, step.text, Exchange(f, j))
       \/ \E j \in JsonOutcomes :
            /\ r.pc = "json"
            /\ Reply(r, askQuestionParsed(r.ok, j).text, Exchange(Resolved(r.ok), j))
    /\ UNCHANGED <<script, alerts, nextId, newest, asked, askOverlap>>

-----------------------------------------------------------------------------
(* generateSummary *)

generateSummary(roleInput, repoInput) ==
  /\ nextId <= MaxCalls
  /\ nextId' = nextId + 1
  /\ LET role    == Trim(roleInput)
         repoUrl == Trim(repoInput) IN
       IF repoUrl = <<>> \/ role = <<>>
       THEN /\ dom' = [dom EXCEPT ![summaryBox] = SetTextContent(@, GuidanceText)]
            /\ last' = [last EXCEPT !["generateSummary"] =
                          [id |-> nextId, text |-> GuidanceText, ex |-> NoExchange]]
            /\ UNCHANGED <<net, newest>>
       ELSE /\ dom' = [dom EXCEPT ![summaryBox] = SetTextContent(@, GeneratingText)]
            /\ net' = net \cup
                 {Pending(nextId, "generateSummary", "fetch", FALSE, "/process_repo",
                          <<>>, << <<"role", ToUSVString(role)>>,
                                   <<"repo_link", ToUSVString(repoUrl)>> >>)}
            /\ newest' = [newest EXCEPT !["generateSummary"] =
                            [id |-> nextId, settled |-> FALSE, text |-> <<>>]]
            /\ UNCHANGED last
  /\ UNCHANGED <<script, alerts, chatOwner, asked, askOverlap>>

generateSummaryFetched ==
  \E r \in PendingOf("generateSummary"), f \in FetchOutcomes, j \in JsonOutcomes :
    /\ r.pc = "fetch"
    /\ LET step == IF script = "static" THEN generateSummaryFetched_static(f)
                   ELSE generateSummaryFetched_part000(f) IN
         IF step.pc = "json"
         THEN Suspend(r, f.ok) /\ UNCHANGED <<dom, last, newest>>
         ELSE Finish(r, step.text, Exchange(f, j))
    /\ UNCHANGED <<script, alerts, nextId, chatOwner, asked, askOverlap>>

generateSummaryParsed ==
  \E r \in PendingOf("generateSummary"), j \in JsonOutcomes :
    /\ r.pc = "json"
    /\ LET step == IF script = "static" THEN generateSummaryParsed_static(r.ok, j)
                   ELSE generateSummaryParsed_part000(r.ok, j) IN
         Finish(r, step.text, Exchange(Resolved(r.ok), j))
    /\ UNCHANGED <<script, alerts, nextId, chatOwner, asked, askOverlap>>

-----------------------------------------------------------------------------
(* Specification *)

Next ==
  \/ \E input \in RepoUrls : loadRepo(input)
  \/ loadRepoFetched
  \/ loadRepoParsed
  \/ \E input \in Questions : askQuestion(input)
  \/ \E id \in 1..MaxCalls : askQuestionSettled(id)
  \/ \E roleInput \in Roles, repoInput \in RepoUrls : generateSummary(roleInput, repoInput)
  \/ generateSummaryFetched
  \/ generateSummaryParsed

Spec == Init /\ [][Next]_vars

\* askQuestion alone, every network call of which eventually settles: each
\* pending await of each invocation is settled by the transport
AskNext ==
  \/ \E input \in Questions : askQuestion(input)
  \/ \E id \in 1..MaxCalls : askQuestionSettled(id)

AskFairSpec ==
  /\ Init
  /\ [][AskNext]_vars
  /\ \A id \in 1..MaxCalls : WF_vars(askQuestionSettled(id))

-----------------------------------------------------------------------------
(* Vocabulary of the claims *)

StartsWith(s, p) == Len(p) <= Len(s) /\ SubSeq(s, 1, Len(p)) = p

IsPrefix(a, b) == Len(a) <= Len(b) /\ \A i \in 1..Len(a) : a[i] = b[i]

\* the white-space characters: TAB, LF, VT, FF, CR, the space, NBSP, the
\* other space separators, the line and paragraph separators and ZWNBSP
Blanks ==
  { " ", "U+0009", "U+000A", "U+000B", "U+000C", "U+000D", "U+00A0", "U+1680",
    "U+2000", "U+2001", "U+2002", "U+2003", "U+2004", "U+2005", "U+2006",
    "U+2007", "U+2008", "U+2009", "U+200A", "U+2028", "U+2029", "U+202F",
    "U+205F", "U+3000", "U+FEFF" }

ErrorMark == Chars("Error: ")
BotMark   == Chars("Bot: ")
YouMark   == Chars("You: ")

\* nothing but white space
IsBlank(s) == \A i \in 1..Len(s) : s[i] \in Blanks

\* q is what is left of s when the white space around it is taken away
Stripped(s, q) ==
  \E i \in 1..Len(s), k \in 1..Len(s) :
    /\ i <= k
    /\ q = SubSeq(s, i, k)
    /\ s[i] \notin Blanks /\ s[k] \notin Blanks
    /\ \A n \in 1..Len(s) : (n < i \/ n > k) => s[n] \in Blanks

StrippedOf(s) ==
  CHOOSE q \in {SubSeq(s, i, k) : i \in 1..Len(s), k \in 1..Len(s)} : Stripped(s, q)

textOf(children) == Concat(children)

Placeholders == {LoadingText, GeneratingText}

log    == dom[chatBox]
Idle(op) == PendingOf(op) = {}

\* the places of the chat box that invocation `id` filled
Owned(id) == {i \in 1..Len(chatOwner) : chatOwner[i] = id}

IsReply(s) == StartsWith(s, BotMark) \/ StartsWith(s, ErrorMark)

\* the exchange failed: no response, a non-success status, or a body that is no JSON
Failed(ex) ==
  \/ ex.kind = "transport"
  \/ ex.kind = "response" /\ (~ex.ok \/ ex.json = "no")

-----------------------------------------------------------------------------
(* C1 *)

\* C1 as stated: once no invocation of a display operation is in flight, its
\* target shows the terminal outcome of the most recently started invocation,
\* and no placeholder.  (Clicks refused by validation are left aside: the
\* formula speaks of the states in which the last write is that of an
\* invocation that made its request.)
C1_NewestOutcomeShown ==
  \A op \in DisplayOps :
    (Idle(op) /\ newest[op].id > 0 /\ last[op].ex.kind # "invalid") =>
      /\ newest[op].settled
      /\ textContent(Target(op)) = newest[op].text
      /\ textContent(Target(op)) \notin Placeholders

\* C1 amended: once no invocation of a display operation is in flight, its
\* target shows what the invocation that finished last wrote (last write
\* wins), and no placeholder.
C1_LastFinishedOutcomeShown ==
  \A op \in DisplayOps :
    /\ (Idle(op) /\ newest[op].id > 0) => last[op].id > 0
    /\ (Idle(op) /\ last[op].id > 0) =>
         /\ textContent(Target(op)) = last[op].text
         /\ textContent(Target(op)) \notin Placeholders

\* two overlapping loadRepo invocations with different outcomes, finished in
\* the opposite order of their start: the earlier one finished last and its
\* outcome is shown
C1_Witness ==
  /\ Idle("loadRepo")
  /\ 0 < last["loadRepo"].id
  /\ last["loadRepo"].id < newest["loadRepo"].id
  /\ newest["loadRepo"].settled
  /\ newest["loadRepo"].text # last["loadRepo"].text
  /\ textContent(filesDiv) = last["loadRepo"].text

\* the invocation of op that finished last is also the one started last, and
\* nothing of op is in flight: what it wrote is what the target ends up showing
Final(op) == Idle(op) /\ last[op].id > 0 /\ last[op].id = newest[op].id

-----------------------------------------------------------------------------
(* C2 *)

\* C2 as stated: loadRepo with a non-empty URL, answered by a non-success
\* status whose body is no JSON, ends up showing exactly
\* "Error: Failed to load repository".
C2_NonSuccessUnparseableShowsGenericError ==
  LET ex == last["loadRepo"].ex IN
    (Final("loadRepo") /\ ex.kind = "response" /\ ~ex.ok /\ ex.json = "no") =>
      textContent(filesDiv) = Chars("Error: Failed to load repository")

-----------------------------------------------------------------------------
(* C3 *)

\* C3 as stated: every validated invocation whose exchange fails (transport
\* failure, non-success status, unparseable body) leaves a text beginning with
\* "Error: " in its display target, or as its entry of the message log, and
\* the invocation has no further request in flight.
C3_EveryFailureReported ==
  /\ \A op \in DisplayOps :
       (Final(op) /\ Failed(last[op].ex)) =>
         StartsWith(textContent(Target(op)), ErrorMark)
  /\ LET l == last["askQuestion"] IN
       (l.id > 0 /\ Failed(l.ex)) =>
         /\ Cardinality(Owned(l.id)) = 2
         /\ \E i \in Owned(l.id) : StartsWith(log[i], ErrorMark)
  /\ \A op \in Ops : \A r \in net : last[op].id # r.id

-----------------------------------------------------------------------------
(* C7 *)

\* C7 as stated: loadRepo, answered by a non-success status with a JSON body,
\* ends up showing "Error: " and the body's error field when that field is
\* present and non-empty, and "Error: " and the generic fallback message when,
\* and only when, the error field is absent.
C7_ErrorFieldPreferred ==
  LET ex       == last["loadRepo"].ex
      e        == ex.error
      fallback == {Chars("Error: Failed to load repository"), Chars("Error: Failed to load repo")}
  IN (Final("loadRepo") /\ ex.kind = "response" /\ ~ex.ok /\ ex.json = "yes") =>
       /\ Truthy(e) => textContent(filesDiv) = ErrorMark \o e.v
       /\ e.t = "undefined" => textContent(filesDiv) \in fallback
       /\ textContent(filesDiv) \in fallback => e.t = "undefined"

-----------------------------------------------------------------------------
(* C8 *)

UnexpectedResponseText == Chars("Error: Unexpected response. Please check the backend.")

\* C8 as stated: generateSummary, answered by a success status whose body is no
\* JSON, ends up showing the unexpected-response text; that text is not what a
\* transport failure or a non-success status shows; and loadRepo in the same
\* situation leaves its display empty.
C8_UnparseableSuccessShowsUnexpectedResponse ==
  LET gs == last["generateSummary"].ex
      lr == last["loadRepo"].ex
  IN /\ (Final("generateSummary") /\ gs.kind = "response" /\ gs.ok /\ gs.json = "no") =>
          textContent(summaryBox) = UnexpectedResponseText
     /\ (Final("generateSummary") /\ (gs.kind = "transport" \/ (gs.kind = "response" /\ ~gs.ok /\ gs.json = "yes"))) =>
          textContent(summaryBox) # UnexpectedResponseText
     /\ (Final("loadRepo") /\ lr.kind = "response" /\ lr.ok /\ lr.json = "no") =>
          textContent(filesDiv) = <<>>

-----------------------------------------------------------------------------
(* C4 *)

\* the question of the validated askQuestion invocation `id`
QuestionOf(id) == (CHOOSE a \in asked : a.id = id).q

\* C4: when no askQuestion ever started while another was pending and none is
\* pending now, the message log holds, for each validated invocation in call
\* order, its "You: q" entry followed by its one reply ("Bot: ..." or
\* "Error: ..."): two such invocations leave exactly four entries.
C4_SequentialAsksInCallOrder ==
  (~askOverlap /\ Idle("askQuestion")) =>
    /\ Len(log) = 2 * Cardinality(asked)
    /\ Len(chatOwner) = Len(log)
    /\ \A k \in 1..Cardinality(asked) :
         /\ chatOwner[2 * k - 1] \in {a.id : a \in asked}
         /\ chatOwner[2 * k] = chatOwner[2 * k - 1]
         /\ log[2 * k - 1] = YouMark \o QuestionOf(chatOwner[2 * k - 1])
         /\ IsReply(log[2 * k])
         /\ k > 1 => chatOwner[2 * k - 3] < chatOwner[2 * k - 1]

\* two sequential invocations, the first answered, the second failed
C4_Witness ==
  /\ ~askOverlap /\ Idle("askQuestion")
  /\ Cardinality(asked) = 2
  /\ Len(log) = 4
  /\ StartsWith(log[2], BotMark)
  /\ StartsWith(log[4], ErrorMark)
  /\ log[1] # log[3]

-----------------------------------------------------------------------------
(* C5 *)

\* C5: a click on askQuestion with a question that is not blank appends
\* "You: " and the question without the white space around it, as the next
\* entry of the log, in the very step that handles the click; when that step
\* issues the request the entry is the only one it adds, and when it issues
\* none (the request could not be built) the entry is followed by an
\* "Error: " entry; every validated invocation, pending or finished with
\* whatever outcome, has its entry in the log; and no step removes or changes
\* an entry.
C5_YouEntryFirstAndKept ==
  /\ [](\A a \in asked :
          \E i \in Owned(a.id) :
            /\ log[i] = YouMark \o a.q
            /\ \A n \in Owned(a.id) : i <= n)
  /\ [][ /\ IsPrefix(log, log')
         /\ \A input \in Questions :
              (~IsBlank(input) /\ askQuestion(input)) =>
                LET you == YouMark \o StrippedOf(input) IN
                  \/ /\ log' = Append(log, you)
                     /\ \E r \in net' \ net : r.op = "askQuestion" /\ r.pc = "fetch"
                  \/ /\ Len(log') = Len(log) + 2
                     /\ log'[Len(log) + 1] = you
                     /\ StartsWith(log'[Len(log) + 2], ErrorMark)
                     /\ net' = net
       ]_vars

\* the request of a validated invocation is still pending at fetch() and its
\* entry is in the log, after an earlier invocation, whose request could not
\* be built, left its entry and an error entry
C5_Witness ==
  \E r \in PendingOf("askQuestion") :
    /\ r.pc = "fetch"
    /\ \E i \in Owned(r.id) :
         log[i] = Chars("You: 50% of a=") \o <<"U+00E9", "U+D83D", "U+DE00">>
    /\ last["askQuestion"].ex = NotSent
    /\ Len(log) = 3
    /\ log[1] = YouMark \o <<"q", "U+DC00">>
    /\ StartsWith(log[2], ErrorMark)

-----------------------------------------------------------------------------
(* C6 *)

\* C6: a click whose required input is blank issues no request: loadRepo and
\* askQuestion raise their alert and leave every display element as it was;
\* generateSummary with a blank role or a blank repo URL writes the guidance
\* message to the summary box.
C6_BlankInputIssuesNoRequest ==
  [][ /\ \A input \in RepoUrls :
           (IsBlank(input) /\ loadRepo(input)) =>
             /\ net' = net /\ dom' = dom
             /\ alerts' = Append(alerts, "Please enter a GitHub repo URL")
      /\ \A input \in Questions :
           (IsBlank(input) /\ askQuestion(input)) =>
             /\ net' = net /\ dom' = dom
             /\ alerts' = Append(alerts, "Please enter a question")
      /\ \A roleInput \in Roles, repoInput \in RepoUrls :
           ((IsBlank(roleInput) \/ IsBlank(repoInput))
              /\ generateSummary(roleInput, repoInput)) =>
             /\ net' = net /\ alerts' = alerts
             /\ textOf(dom'[summaryBox]) = GuidanceText
             /\ dom'[filesDiv] = dom[filesDiv] /\ dom'[chatBox] = dom[chatBox]
    ]_vars

\* a refused askQuestion and a refused generateSummary: one alert, the
\* guidance shown, the log empty and nothing in flight
C6_Witness ==
  /\ alerts = <<"Please enter a question">>
  /\ textContent(summaryBox) = GuidanceText
  /\ log = <<>>
  /\ net = {}
  /\ nextId = 3

-----------------------------------------------------------------------------
(* C9 *)

LoadRepoStep ==
  \/ \E input \in RepoUrls : loadRepo(input)
  \/ loadRepoFetched
  \/ loadRepoParsed

AskQuestionStep ==
  \/ \E input \in Questions : askQuestion(input)
  \/ \E id \in 1..MaxCalls : askQuestionSettled(id)

GenerateSummaryStep ==
  \/ \E roleInput \in Roles, repoInput \in RepoUrls : generateSummary(roleInput, repoInput)
  \/ generateSummaryFetched
  \/ generateSummaryParsed

\* C9: every step of loadRepo leaves the message log and the summary box as
\* they were, every step of askQuestion leaves the files area and the summary
\* box as they were, and every step of generateSummary leaves the files area
\* and the message log as they were.
C9_TargetsWrittenByOwnerOnly ==
  [][ /\ LoadRepoStep =>
           dom'[chatBox] = dom[chatBox] /\ dom'[summaryBox] = dom[summaryBox]
      /\ AskQuestionStep =>
           dom'[filesDiv] = dom[filesDiv] /\ dom'[summaryBox] = dom[summaryBox]
      /\ GenerateSummaryStep =>
           dom'[filesDiv] = dom[filesDiv] /\ dom'[chatBox] = dom[chatBox]
    ]_vars

\* loadRepo has finished while a generateSummary was pending: the files area
\* shows the message and the summary box still shows its placeholder
C9_Witness ==
  /\ textContent(filesDiv) = Chars("42 files")
  /\ textContent(summaryBox) = GeneratingText
  /\ PendingOf("generateSummary") # {}
  /\ log = <<>>

-----------------------------------------------------------------------------
(* C10 *)

IsPendingAsk(id) == \E r \in PendingOf("askQuestion") : r.id = id

\* C10: the message log only grows; a validated askQuestion invocation owns
\* its "You: " entry alone while it is pending and, once finished, exactly one
\* more entry, a reply ("Bot: ..." or "Error: ...") placed after it; the reply
\* is appended at the end of the log in the step in which the invocation's
\* exchange settles, so replies stand in the order of settling; and every
\* pending invocation eventually has its reply.
C10_AppendOnlyOneReplyEach ==
  /\ [](/\ Len(chatOwner) = Len(log)
        /\ \A i \in 1..Len(chatOwner) : chatOwner[i] \in {a.id : a \in asked}
        /\ \A a \in asked :
             LET own == Owned(a.id) IN
               /\ \E i \in own : log[i] = YouMark \o a.q /\ \A n \in own : i <= n
               /\ IF IsPendingAsk(a.id)
                  THEN Cardinality(own) = 1
                  ELSE /\ Cardinality(own) = 2
                       /\ \E k \in own : IsReply(log[k]) /\ \A n \in own : n <= k)
  /\ [][ /\ IsPrefix(log, log')
         /\ \A r \in PendingOf("askQuestion") :
              (\A n \in net' : n.id # r.id) =>
                /\ Len(log') = Len(log) + 1
                /\ IsReply(log'[Len(log')])
                /\ chatOwner' = Append(chatOwner, r.id)
       ]_vars
  /\ \A id \in 1..MaxCalls :
       IsPendingAsk(id) ~> (~IsPendingAsk(id) /\ Cardinality(Owned(id)) = 2)

\* two overlapping invocations: the reply to the second stands before the
\* reply to the first
C10_Witness ==
  /\ chatOwner = <<1, 2, 2, 1>>
  /\ Idle("askQuestion")
  /\ StartsWith(log[3], ErrorMark)
  /\ StartsWith(log[4], BotMark)

====
